---------------------------- MODULE Spec2Model ----------------------------
(***************************************************************************)
(* EchoVoiceAgent (src/main.py): the speech-segmentation and echo-playback *)
(* state machine.                                                          *)
(*                                                                         *)
(* The agent is a set of asyncio tasks on one event loop: the frame        *)
(* handler (handle_audio), the monitor (speech_monitor_loop), the reminder *)
(* loop (silence_loop) and the playback runs (play_buffer).  A task runs   *)
(* without interruption from one await to the next, so every action below  *)
(* is the code between two awaits.                                         *)
(*                                                                         *)
(* Time is discrete; one tick is the monitor's period, 0.1 s.  Instead of  *)
(* the wall clock the model keeps differences: since_speech is             *)
(* time.time() - self.last_speech_time, and every sleep is a countdown.    *)
(* A task whose sleep has run out (or that was cancelled) runs before time *)
(* advances; tasks that are ready at the same instant run in any order.    *)
(***************************************************************************)
EXTENDS Naturals, Integers, Sequences, FiniteSets

(* ------------------------------ bounds --------------------------------- *)

\* Speech frames accepted in one behaviour.
MaxFrames == 3

\* Ticks between construction (last_speech_time is set) and the start of the loops.
MaxConnectDelay == 1

\* Durations (in ticks) an inbound frame may have: samples_per_channel / sample_rate.
ShortFrame == 1

LongFrame == 12

\* A frame long enough for its echo to outlast the reminder threshold.
VeryLongFrame == 200

\* Ticks audio_source.capture_frame may take to return (it may also return at once).
MaxCaptureDelay == 1

\* Speech frames handle_audio may accept while connect() is still under way,
\* before the two loops are started.
MaxEarlyFrames == 1

(* ------------------------- program constants --------------------------- *)

\* asyncio.sleep(0.1): the monitor's period, the unit of time.
MONITOR_INTERVAL == 1

\* self.SILENCE_THRESHOLD = 1.0 s
SILENCE_THRESHOLD == 10

\* self.ECHO_DELAY = 0.5 s
ECHO_DELAY == 5

\* self.ENERGY_THRESHOLD = 500
ENERGY_THRESHOLD == 500

\* asyncio.sleep(2) in silence_loop
SILENCE_LOOP_INTERVAL == 20

\* time.time() - self.last_speech_time > 20
REMINDER_THRESHOLD == 200

(* ------------------------------ state ---------------------------------- *)

VARIABLES
    speech_buffer,    \* self.speech_buffer: the live buffer, a sequence of frames
    is_collecting,    \* self.is_collecting
    playback_task,    \* self.playback_task: 0 (None) or the id of a playback task
    since_speech,     \* time.time() - self.last_speech_time, saturating at AgeCap
    monitor_pc,       \* speech_monitor_loop: "sleep" (line 125) or "delay" (line 137)
    monitor_timer,    \* ticks left of the monitor's current sleep
    frames_to_play,   \* the monitor's local frames_to_play
    silence_pc,       \* silence_loop: "sleep" (line 159) or "reminder" (awaiting line 181)
    silence_timer,    \* ticks left of the reminder loop's sleep
    tasks,            \* the play_buffer tasks, by id (the id of the segment's first frame)
    sink,             \* history: the segment frames audio_source.capture_frame received
                      \* from play_buffer, in order (a tone is at the sink exactly
                      \* while silence_pc = "reminder")
    segments,         \* history: the finalized segments (sequences of frame ids), in order
    next_id,          \* history: the id the next accepted speech frame gets
    since_frame,      \* history: ticks since the last accepted speech frame
    since_reminder,   \* history: ticks since play_reminder last returned, while no
                      \* speech frame has been accepted since (Never once one has)
    since_final,      \* history: ticks since the last finalization
    capture_from,     \* history: id of the first frame of the capture in progress
    pending_hit,      \* history: segments (not yet played out) that were waiting out the
                      \* echo delay when a speech frame was accepted
    stale,            \* history: frames (of segments not yet played out) that were
                      \* finalized but not emitted when speech interrupted a playback
    last_frame        \* observer of handle_audio: "silence" when the last step handled
                      \* a frame at or below the threshold, "none" after any other
                      \* step; "off" throughout when the run does not observe

agent_vars == << speech_buffer, is_collecting, playback_task, since_speech, monitor_pc,
           monitor_timer, frames_to_play, silence_pc, silence_timer, tasks, sink,
           segments, next_id, since_frame, since_reminder, since_final,
           capture_from, pending_hit, stale >>

vars == << agent_vars, last_frame >>

(* ----------------------------- helpers --------------------------------- *)

Min(a, b) == IF a < b THEN a ELSE b

FrameDurations == {ShortFrame, LongFrame}

\* Ages saturate above every threshold they are compared with.
AgeCap == REMINDER_THRESHOLD + SILENCE_LOOP_INTERVAL + 1

Age(a, cap) == Min(a + 1, cap)

\* The histories that are compared with the reminder threshold alone saturate here.
LongAgo == REMINDER_THRESHOLD + 1

\* No reminder tone yet, or a speech frame accepted since the last one.
Never == LongAgo + 1

TaskIds == 1..MaxFrames

\* 16-bit PCM buffers an inbound frame may carry.
PcmChoices ==
    { << >>, <<400, 600>>, <<1000, 2>>, <<-1000, -1000>>, <<-32768, -32768>> }

RECURSIVE SumSeq(_)
SumSeq(s) == IF s = << >> THEN 0 ELSE Head(s) + SumSeq(Tail(s))

Ids(frames) == [i \in 1..Len(frames) |-> frames[i].id]

Durs(frames) == [i \in 1..Len(frames) |-> frames[i].dur]

RECURSIVE Flatten(_)
Flatten(ss) == IF ss = << >> THEN << >> ELSE Head(ss) \o Flatten(Tail(ss))

Range(s) == { s[i] : i \in 1..Len(s) }

(* ------------------------- EnergyDetector ------------------------------ *)

\* np.abs on an int16 array: the magnitude, except that -32768 has none in 16 bits.
Abs16(x) == IF x = -32768 THEN -32768 ELSE IF x < 0 THEN -x ELSE x

\* Mutant of IsSpeech: the threshold itself counts as speech.
IsSpeech_AtLeast(pcm) ==
    /\ Len(pcm) > 0
    /\ SumSeq([i \in 1..Len(pcm) |-> Abs16(pcm[i])]) >= ENERGY_THRESHOLD * Len(pcm)

\* energy = np.abs(pcm).mean(); energy > self.ENERGY_THRESHOLD.  The mean of an
\* empty array is nan, which is not greater than anything.
IsSpeech(pcm) ==
    /\ Len(pcm) > 0
    /\ SumSeq([i \in 1..Len(pcm) |-> Abs16(pcm[i])]) > ENERGY_THRESHOLD * Len(pcm)

\* The inbound buffers handle_audio ignores: their energy as line 111 computes it
\* (np.abs on int16, then the mean; nan for an empty buffer) is not above the
\* threshold.
SilentPcm ==
    { p \in PcmChoices :
        \/ Len(p) = 0
        \/ SumSeq([i \in 1..Len(p) |-> Abs16(p[i])]) <= ENERGY_THRESHOLD * Len(p) }

\* What the observer notes of one inbound frame / of any other step.
Heard(pcm) ==
    IF last_frame = "off" THEN "off"
    ELSE IF pcm \in SilentPcm THEN "silence" ELSE "none"

Unheard == IF last_frame = "off" THEN "off" ELSE "none"

(* --------------------------- playback tasks ---------------------------- *)

NoTask ==
    [pc |-> "none", frames |-> << >>, pos |-> 0, timer |-> 0, must_cancel |-> FALSE,
     since_emit |-> 0, since_start |-> 0]

\* Mutant of NewTask: the coroutine is made but never scheduled.
NewTask_Unscheduled(frames) == [NoTask EXCEPT !.frames = frames]

\* asyncio.create_task(self.play_buffer(frames)): the run starts at the loop's next turn.
NewTask(frames) == [NoTask EXCEPT !.pc = "created", !.frames = frames]

\* The coroutine has returned: line 153 was reached, or CancelledError was caught
\* (line 154) or raised before the first turn.
EndedTask == [NoTask EXCEPT !.pc = "done"]

\* task.done()
Done(t) == tasks[t].pc = "done"

\* A play_buffer run that exists and has not ended.
Running(t) == tasks[t].pc \in {"created", "capture", "sleep"}

\* self.playback_task and not self.playback_task.done()
PlaybackActive == playback_task # 0 /\ ~Done(playback_task)

\* Mutant of CancelPlayback: the interruption is forgotten.
CancelPlayback_Forgotten == tasks

\* self.playback_task.cancel(): a request; CancelledError is raised in the task the
\* next time it runs.
CancelPlayback ==
    IF PlaybackActive
    THEN [tasks EXCEPT ![playback_task].must_cancel = TRUE]
    ELSE tasks

(* ---------------------------- handle_audio ----------------------------- *)

\* Mutant of BufferAfterAppend: the frame is put in front.
BufferAfterAppend_InFront(frame) == <<frame>> \o speech_buffer

\* self.speech_buffer.append(frame)
BufferAfterAppend(frame) == Append(speech_buffer, frame)

\* Mutant of HandleAudio: the playback is cancelled before the energy is looked at.
HandleAudio_SilenceCancels(pcm, dur) ==
    IF IsSpeech(pcm)
    THEN /\ next_id <= MaxFrames
         /\ tasks' = CancelPlayback
         /\ speech_buffer' = BufferAfterAppend([id |-> next_id, dur |-> dur])
         /\ is_collecting' = TRUE
         /\ since_speech' = 0
         /\ next_id' = next_id + 1
         /\ since_frame' = 0
         /\ capture_from' = IF speech_buffer = << >> /\ ~is_collecting
                            THEN next_id ELSE capture_from
         /\ pending_hit' = pending_hit \cup
                IF monitor_pc = "delay" /\ frames_to_play # << >>
                THEN {frames_to_play[1].id} ELSE {}
         /\ stale' = stale \cup
                IF \E t \in TaskIds : Running(t) /\ ~tasks[t].must_cancel
                THEN Range(Flatten(segments)) \ Range(sink) ELSE {}
         /\ since_reminder' = Never
         /\ last_frame' = Heard(pcm)
         /\ UNCHANGED << playback_task, monitor_pc, monitor_timer, frames_to_play,
                         silence_pc, silence_timer, sink, segments, since_final >>
    ELSE /\ tasks' = CancelPlayback
         /\ last_frame' = Heard(pcm)
         /\ UNCHANGED << speech_buffer, is_collecting, playback_task, since_speech,
                         monitor_pc, monitor_timer, frames_to_play, silence_pc,
                         silence_timer, sink, segments, next_id, since_frame,
                         since_reminder, since_final, capture_from, pending_hit, stale >>

\* One inbound frame (lines 107-121); there is no await between the lines.
HandleAudio(pcm, dur) ==
    IF IsSpeech(pcm)
    THEN /\ next_id <= MaxFrames
         /\ tasks' = CancelPlayback
         /\ speech_buffer' = BufferAfterAppend([id |-> next_id, dur |-> dur])
         /\ is_collecting' = TRUE
         /\ since_speech' = 0
         /\ next_id' = next_id + 1
         /\ since_frame' = 0
         /\ capture_from' = IF speech_buffer = << >> /\ ~is_collecting
                            THEN next_id ELSE capture_from
         /\ pending_hit' = pending_hit \cup
                IF monitor_pc = "delay" /\ frames_to_play # << >>
                THEN {frames_to_play[1].id} ELSE {}
         /\ stale' = stale \cup
                IF \E t \in TaskIds : Running(t) /\ ~tasks[t].must_cancel
                THEN Range(Flatten(segments)) \ Range(sink) ELSE {}
         /\ since_reminder' = Never
         /\ last_frame' = Heard(pcm)
         /\ UNCHANGED << playback_task, monitor_pc, monitor_timer, frames_to_play,
                         silence_pc, silence_timer, sink, segments, since_final >>
    ELSE /\ last_frame' = Heard(pcm)
         /\ UNCHANGED agent_vars

(* ------------------------- speech_monitor_loop ------------------------- *)

\* Mutant of SilenceElapsed: a gap of exactly the threshold ends the capture.
SilenceElapsed_AtLeast == since_speech >= SILENCE_THRESHOLD

\* silence_duration > self.SILENCE_THRESHOLD
SilenceElapsed == since_speech > SILENCE_THRESHOLD

\* Mutant of BufferAfterFinalize: the live buffer is not cleared.
BufferAfterFinalize_Kept == speech_buffer

\* self.speech_buffer.clear()
BufferAfterFinalize == << >>

\* Mutant of CollectingAfterFinalize: the state is not set back to Idle.
CollectingAfterFinalize_Kept == is_collecting

\* self.is_collecting = False
CollectingAfterFinalize == FALSE

\* The monitor wakes from asyncio.sleep(0.1) (lines 125-137): it finalizes the
\* capture and starts the echo delay, or goes back to sleep.
MonitorWake ==
    /\ monitor_pc = "sleep"
    /\ monitor_timer = 0
    /\ IF is_collecting /\ Len(speech_buffer) > 0 /\ SilenceElapsed
       THEN /\ frames_to_play' = speech_buffer
            /\ speech_buffer' = BufferAfterFinalize
            /\ is_collecting' = CollectingAfterFinalize
            /\ monitor_pc' = "delay"
            /\ monitor_timer' = ECHO_DELAY
            /\ segments' = Append(segments, Ids(speech_buffer))
            /\ since_final' = 0
       ELSE /\ monitor_timer' = MONITOR_INTERVAL
            /\ UNCHANGED << frames_to_play, speech_buffer, is_collecting, monitor_pc,
                            segments, since_final >>
    /\ last_frame' = Unheard
    /\ UNCHANGED << playback_task, since_speech, silence_pc, silence_timer, tasks, sink,
                    next_id, since_frame, since_reminder, capture_from, pending_hit,
                    stale >>

\* The monitor wakes from asyncio.sleep(self.ECHO_DELAY) (lines 139-142, then 125).
MonitorCreate ==
    /\ monitor_pc = "delay"
    /\ monitor_timer = 0
    /\ IF frames_to_play # << >>
       THEN /\ tasks' = [tasks EXCEPT ![frames_to_play[1].id] = NewTask(frames_to_play)]
            /\ playback_task' = frames_to_play[1].id
       ELSE UNCHANGED << tasks, playback_task >>
    /\ frames_to_play' = << >>
    /\ monitor_pc' = "sleep"
    /\ monitor_timer' = MONITOR_INTERVAL
    /\ last_frame' = Unheard
    /\ UNCHANGED << speech_buffer, is_collecting, since_speech, silence_pc, silence_timer,
                    sink, segments, next_id, since_frame, since_reminder, since_final,
                    capture_from, pending_hit, stale >>

(* ----------------------------- play_buffer ----------------------------- *)

\* Mutant of PacingSleep: every frame is paced as the shortest one.
PacingSleep_Fixed(frame) == ShortFrame

\* frame_duration = frame.samples_per_channel / frame.sample_rate
PacingSleep(frame) == frame.dur

\* Mutant of Emit: the loop variable is not used, the first frame is sent again.
Emit_First(t, k) ==
    /\ sink' = Append(sink, tasks[t].frames[1].id)
    /\ tasks' = [tasks EXCEPT ![t].pc = "capture", ![t].pos = k, ![t].since_emit = 0,
                             ![t].timer = MaxCaptureDelay]
    /\ UNCHANGED << pending_hit, stale >>

\* await self.audio_source.capture_frame(frame): the frame is handed to the sink
\* when the call is made; the call returns at once or within MaxCaptureDelay.
Emit(t, k) ==
    /\ sink' = Append(sink, tasks[t].frames[k].id)
    /\ tasks' = [tasks EXCEPT ![t].pc = "capture", ![t].pos = k, ![t].since_emit = 0,
                             ![t].timer = MaxCaptureDelay]
    /\ UNCHANGED << pending_hit, stale >>

\* The coroutine returns.  The histories forget the frames of a run that has ended.
End(t) ==
    /\ tasks' = [tasks EXCEPT ![t] = EndedTask]
    /\ sink' = sink
    /\ pending_hit' = pending_hit \ {t}
    /\ stale' = stale \ Range(Ids(tasks[t].frames))

\* Mutant of PlayUnchanged: the playback run sets the agent back to Idle.
PlayUnchanged_Idles ==
    /\ is_collecting' = FALSE
    /\ last_frame' = Unheard
    /\ UNCHANGED << speech_buffer, playback_task, since_speech, monitor_pc,
                    monitor_timer, frames_to_play, silence_pc, silence_timer, segments,
                    next_id, since_frame, since_reminder, since_final, capture_from >>

\* play_buffer touches nothing but the sink and its own task.
PlayUnchanged ==
    /\ last_frame' = Unheard
    /\ UNCHANGED << speech_buffer, is_collecting, playback_task, since_speech, monitor_pc,
                    monitor_timer, frames_to_play, silence_pc, silence_timer, segments,
                    next_id, since_frame, since_reminder, since_final, capture_from >>

\* The run's first turn (lines 145-147).  A task cancelled before its first turn
\* never enters the coroutine.
PlayStart(t) ==
    /\ tasks[t].pc = "created"
    /\ IF tasks[t].must_cancel THEN End(t) ELSE Emit(t, 1)
    /\ PlayUnchanged

\* capture_frame returns, at any time up to MaxCaptureDelay after the call (lines
\* 150-151), or CancelledError is raised at it (154).
PlayCaptured(t) ==
    /\ tasks[t].pc = "capture"
    /\ IF tasks[t].must_cancel
       THEN End(t)
       ELSE /\ tasks' = [tasks EXCEPT
                            ![t].pc = "sleep",
                            ![t].timer = PacingSleep(tasks[t].frames[tasks[t].pos])]
            /\ UNCHANGED << sink, pending_hit, stale >>
    /\ PlayUnchanged

\* The pacing sleep ends (next frame, lines 146-147, or line 153), or
\* CancelledError is raised at it (154).
PlayWake(t) ==
    /\ tasks[t].pc = "sleep"
    /\ tasks[t].timer = 0 \/ tasks[t].must_cancel
    /\ IF ~tasks[t].must_cancel /\ tasks[t].pos < Len(tasks[t].frames)
       THEN Emit(t, tasks[t].pos + 1)
       ELSE End(t)
    /\ PlayUnchanged

(* ----------------------------- silence_loop ---------------------------- *)

\* not self.is_collecting and time.time() - self.last_speech_time > 20
ReminderDue == ~is_collecting /\ since_speech > REMINDER_THRESHOLD

\* The reminder loop wakes from asyncio.sleep(2) (lines 159-163 and play_reminder
\* up to its await, lines 167-181): the tone is handed to the sink.
SilenceWake ==
    /\ silence_pc = "sleep"
    /\ silence_timer = 0
    /\ IF ReminderDue
       THEN /\ silence_pc' = "reminder"
            /\ silence_timer' = MaxCaptureDelay
       ELSE /\ silence_timer' = SILENCE_LOOP_INTERVAL
            /\ UNCHANGED silence_pc
    /\ last_frame' = Unheard
    /\ UNCHANGED << speech_buffer, is_collecting, playback_task, since_speech, monitor_pc,
                    monitor_timer, frames_to_play, tasks, sink, segments, next_id,
                    since_frame, since_reminder, since_final, capture_from, pending_hit,
                    stale >>

\* Mutant of ClockAfterReminder: the clock is set back to the epoch.
ClockAfterReminder_Epoch == AgeCap

\* Mutant of ClockAfterReminder: the clock is not reset after a reminder.
ClockAfterReminder_Kept == since_speech

\* self.last_speech_time = time.time()
ClockAfterReminder == 0

\* capture_frame of the tone returns, at any time up to MaxCaptureDelay after the
\* call, and with it play_reminder (line 164, then 159).
ReminderReturn ==
    /\ silence_pc = "reminder"
    /\ since_speech' = ClockAfterReminder
    /\ silence_pc' = "sleep"
    /\ silence_timer' = SILENCE_LOOP_INTERVAL
    /\ since_reminder' = 0
    /\ last_frame' = Unheard
    /\ UNCHANGED << speech_buffer, is_collecting, playback_task, monitor_pc, monitor_timer,
                    frames_to_play, tasks, sink, segments, next_id, since_frame,
                    since_final, capture_from, pending_hit, stale >>

(* -------------------------------- time --------------------------------- *)

\* Mutant of Ready: a cancelled run is only resumed when its wait is over.
Ready_SleepsOn(t) ==
    \/ tasks[t].pc = "created"
    \/ tasks[t].pc \in {"capture", "sleep"} /\ tasks[t].timer = 0

\* A task that is resumed before any more time passes: it has not had its first
\* turn, its sleep has run out, its capture_frame has taken as long as it may, or
\* it was cancelled.
Ready(t) ==
    \/ tasks[t].pc = "created"
    \/ tasks[t].pc \in {"capture", "sleep"}
          /\ (tasks[t].timer = 0 \/ tasks[t].must_cancel)

\* One tick passes when no task has to be resumed first: every sleep has time
\* left, and so has every capture_frame that has not returned.
Tick ==
    /\ monitor_timer > 0
    /\ silence_timer > 0
    /\ \A t \in TaskIds : ~Ready(t)
    /\ monitor_timer' = monitor_timer - 1
    /\ silence_timer' = silence_timer - 1
    /\ tasks' = [t \in TaskIds |->
                    IF tasks[t].pc \in {"capture", "sleep"}
                    THEN [tasks[t] EXCEPT !.timer = @ - 1,
                                          !.since_emit = Age(@, LongFrame + 1),
                                          !.since_start = Age(@, MaxFrames * (LongFrame + 1))]
                    ELSE tasks[t]]
    /\ since_speech' = Age(since_speech, AgeCap)
    /\ since_frame' = Age(since_frame, LongAgo)
    /\ since_reminder' = IF since_reminder = Never THEN Never
                         ELSE Age(since_reminder, LongAgo)
    /\ since_final' = Age(since_final, ECHO_DELAY)
    /\ last_frame' = Unheard
    /\ UNCHANGED << speech_buffer, is_collecting, playback_task, monitor_pc,
                    frames_to_play, silence_pc, sink, segments, next_id, capture_from,
                    pending_hit, stale >>

(* --------------------------- specifications ---------------------------- *)

\* The state when connect() has started the two loops (lines 100-101).  The
\* track handler is installed before that (lines 83-88), so handle_audio may
\* already have accepted frames: either nothing is buffered and last_speech_time
\* is that of construction (line 57), or a capture is under way and
\* last_speech_time is the arrival of its last frame.  No playback yet.  The early
\* frames have durations from D.
InitFrames(D) ==
    /\ \E n \in 0..MaxEarlyFrames :
          /\ \E durs \in [1..n -> D] :
                speech_buffer = [i \in 1..n |-> [id |-> i, dur |-> durs[i]]]
          /\ is_collecting = (n > 0)
          /\ next_id = n + 1
          /\ capture_from = IF n > 0 THEN 1 ELSE 0
    /\ playback_task = 0
    /\ since_speech \in 0..MaxConnectDelay
    /\ since_frame = IF is_collecting THEN since_speech ELSE LongAgo
    /\ monitor_pc = "sleep"
    /\ monitor_timer = MONITOR_INTERVAL
    /\ frames_to_play = << >>
    /\ silence_pc = "sleep"
    /\ silence_timer = SILENCE_LOOP_INTERVAL
    /\ tasks = [t \in TaskIds |-> NoTask]
    /\ sink = << >>
    /\ segments = << >>
    /\ since_reminder = Never
    /\ since_final = ECHO_DELAY
    /\ pending_hit = {}
    /\ stale = {}

InitAgent == InitFrames(FrameDurations)

Init == InitAgent /\ last_frame = "off"

\* The same when every inbound frame carries VeryLongFrame of audio.
InitLong == InitFrames({VeryLongFrame}) /\ last_frame = "off"

\* The same when no speech frame arrived while connect() was under way.
InitNoEarlyFrame == Init /\ next_id = 1

Next ==
    \/ \E pcm \in PcmChoices, dur \in FrameDurations : HandleAudio(pcm, dur)
    \/ MonitorWake
    \/ MonitorCreate
    \/ \E t \in TaskIds : PlayStart(t)
    \/ \E t \in TaskIds : PlayCaptured(t)
    \/ \E t \in TaskIds : PlayWake(t)
    \/ SilenceWake
    \/ ReminderReturn
    \/ Tick

Spec == Init /\ [][Next]_vars

\* The agent when every inbound frame is at or below the energy threshold.
NextSilent ==
    \/ \E pcm \in SilentPcm, dur \in FrameDurations : HandleAudio(pcm, dur)
    \/ MonitorWake
    \/ SilenceWake
    \/ ReminderReturn
    \/ Tick

SpecSilent == InitNoEarlyFrame /\ [][NextSilent]_vars

\* The agent when every inbound frame carries VeryLongFrame of audio, so that the
\* echo of a segment outlasts the reminder threshold.
NextLong ==
    \/ \E pcm \in PcmChoices : HandleAudio(pcm, VeryLongFrame)
    \/ MonitorWake
    \/ MonitorCreate
    \/ \E t \in TaskIds : PlayStart(t)
    \/ \E t \in TaskIds : PlayCaptured(t)
    \/ \E t \in TaskIds : PlayWake(t)
    \/ SilenceWake
    \/ ReminderReturn
    \/ Tick

SpecLong == InitLong /\ [][NextLong]_vars

\* What the event loop does of its own accord: it resumes the tasks that are ready
\* and, when none is, lets time pass.
Progress ==
    \/ MonitorWake
    \/ MonitorCreate
    \/ \E t \in TaskIds : PlayStart(t) \/ PlayCaptured(t) \/ PlayWake(t)
    \/ SilenceWake
    \/ ReminderReturn
    \/ Tick

\* The agent on a running event loop: the loop never stops while it has a task to
\* resume or a sleep to wait for.  Inbound frames are under no obligation to arrive.
SpecFair == Spec /\ WF_vars(Progress)

\* The agent with the observer of handle_audio switched on.
InitHeard == InitAgent /\ last_frame = "none"

SpecHeard == InitHeard /\ [][Next]_vars

(* ------------------------------ claims --------------------------------- *)

\* The play_buffer runs that are active: created and neither ended nor asked to cancel.
ActiveRuns == { t \in TaskIds : Running(t) /\ ~tasks[t].must_cancel }

\* C1: at most one playback run is active at any time, so that whenever the
\* monitor creates a playback task every earlier one has completed or been
\* cancelled.
C1_AtMostOneActivePlayback == Cardinality(ActiveRuns) <= 1

\* C2: once a speech frame has been accepted while a playback run was active, no
\* frame of a segment finalized before that speech frame is emitted to the sink
\* any more (stale holds those frames that had not been emitted by then).
C2_NoStaleFrameEmitted == stale \cap Range(sink) = {}

\* C3: a segment that was waiting out the echo delay when a speech frame was
\* accepted is discarded: none of its frames reaches the sink.
C3_InterruptedPendingSegmentSilent ==
    \A s \in Range(segments) : s[1] \in pending_hit => Range(s) \cap Range(sink) = {}

\* C4: no overlap: play_buffer never emits a segment frame in a state where the
\* agent is Collecting.
C4_NoEmissionWhileCollecting ==
    [][Len(sink') > Len(sink) => ~(is_collecting /\ speech_buffer # << >>)]_vars

\* The step in which handle_audio accepts a speech frame.
AcceptStep == next_id' = next_id + 1

\* The step in which the monitor finalizes a segment.
FinalizeStep == Len(segments') = Len(segments) + 1

\* C5: a capture that starts from Idle with an empty buffer and takes N >= 1
\* speech frames is finalized as one segment holding exactly those N frames in
\* arrival order; that happens only after more than SILENCE_THRESHOLD without a
\* speech frame, and no later than one monitor period after the clock
\* (last_speech_time) is that old.
C5_SegmentIsTheCapture ==
    /\ [][FinalizeStep =>
            /\ segments'[Len(segments')] =
                   [i \in 1..(next_id - capture_from) |-> capture_from + i - 1]
            /\ next_id - capture_from >= 1
            /\ since_frame > SILENCE_THRESHOLD
            /\ speech_buffer' = << >> /\ ~is_collecting']_vars
    /\ [](is_collecting => since_speech <= SILENCE_THRESHOLD + MONITOR_INTERVAL)

\* A segment of two or more frames has been finalized.
C5_Witness == \E i \in 1..Len(segments) : Len(segments[i]) >= 2

\* C6: when every inbound frame is at or below the energy threshold, the live
\* buffer stays empty, the state stays Idle, no segment is finalized, no playback
\* task is created and no segment frame reaches the sink.
C6_SilenceNeverEchoes ==
    /\ speech_buffer = << >>
    /\ ~is_collecting
    /\ segments = << >>
    /\ monitor_pc = "sleep" /\ frames_to_play = << >>
    /\ playback_task = 0
    /\ \A t \in TaskIds : tasks[t].pc = "none"
    /\ sink = << >>

\* Under silent input only, after twenty seconds, a reminder tone is at the sink.
C6_Witness == silence_pc = "reminder" /\ next_id = 1 /\ sink = << >>

\* C7: the first frame of a segment is emitted no sooner than ECHO_DELAY after
\* its finalization; within a run frame k+1 is not emitted before frame k's own
\* duration has passed since frame k was emitted; and a run that is not
\* interrupted ends no sooner than the sum of its frames' durations after its
\* first emission.
C7_EchoDelayAndPacing ==
    [][\A t \in TaskIds :
          /\ (tasks[t].pos = 0 /\ tasks'[t].pos = 1) => since_final >= ECHO_DELAY
          /\ (tasks[t].pos >= 1 /\ tasks'[t].pos = tasks[t].pos + 1)
                => tasks[t].since_emit >= tasks[t].frames[tasks[t].pos].dur
          /\ (tasks[t].pc = "sleep" /\ ~tasks[t].must_cancel /\ tasks'[t].pc = "done")
                => tasks[t].since_start >= SumSeq(Durs(tasks[t].frames))]_vars

\* A run has emitted its second frame, the first one being a long frame.
C7_Witness ==
    \E t \in TaskIds : tasks[t].pos = 2 /\ tasks[t].frames[1].dur = LongFrame

\* C8: a reminder tone is emitted only when more than REMINDER_THRESHOLD has
\* passed since the last accepted speech frame and since the previous reminder;
\* and while the agent is Idle its clock never runs more than one reminder-loop
\* interval past the threshold without a reminder being handed to the sink.
C8_ReminderSpacing ==
    /\ [][(silence_pc = "sleep" /\ silence_pc' = "reminder") =>
            (since_frame > REMINDER_THRESHOLD /\ since_reminder > REMINDER_THRESHOLD)]_vars
    /\ []((~is_collecting /\ silence_pc = "sleep")
             => since_speech <= REMINDER_THRESHOLD + SILENCE_LOOP_INTERVAL)

\* A second reminder in a row is at the sink, the one before it long ago.
C8_Witness ==
    silence_pc = "reminder" /\ since_reminder = LongAgo /\ since_frame = LongAgo

\* C9: accepting a speech frame is one step: the current playback task, if
\* active, has its cancellation requested and is not waited for (no task changes
\* otherwise); the frame becomes the last element of the live buffer, the state
\* Collecting, the clock now; and from Idle the buffer is exactly that frame.
C9_AcceptIsAtomic ==
    [][AcceptStep =>
          /\ PlaybackActive => tasks'[playback_task].must_cancel
          /\ \A t \in TaskIds : tasks'[t].pc = tasks[t].pc /\ tasks'[t].pos = tasks[t].pos
          /\ Len(speech_buffer') = Len(speech_buffer) + 1
          /\ speech_buffer'[Len(speech_buffer')].id = next_id
          /\ \A i \in 1..Len(speech_buffer) : speech_buffer'[i] = speech_buffer[i]
          /\ is_collecting'
          /\ since_speech' = 0
          /\ ~is_collecting => Ids(speech_buffer') = <<next_id>>]_vars

\* A speech frame has just interrupted a playback run from Idle.
C9_Witness ==
    /\ PlaybackActive /\ tasks[playback_task].must_cancel
    /\ tasks[playback_task].pos >= 1
    /\ is_collecting /\ Len(speech_buffer) = 1 /\ since_speech = 0

\* All accepted frames that are in a finalized segment or in the live buffer,
\* one entry for each place a frame is in.
Places == Flatten(segments) \o Ids(speech_buffer)

\* C10: every accepted speech frame is in exactly one place, the live buffer or
\* one finalized segment: none is both finalized and buffered, none is lost and
\* none is in two segments.
C10_FrameConservation ==
    /\ \A f \in 1..(next_id - 1) :
          Cardinality({ i \in 1..Len(Places) : Places[i] = f }) = 1
    /\ Range(Places) \subseteq 1..(next_id - 1)

\* A speech frame was accepted during the echo delay: one frame is in a
\* finalized segment, another in the live buffer.
C10_Witness ==
    monitor_pc = "delay" /\ segments # << >> /\ speech_buffer # << >>

\* C11: is_collecting holds exactly when the live buffer is non-empty; the
\* buffer grows only when handle_audio accepts a frame; and no segment without
\* frames is finalized, waits out the echo delay or is handed to a playback run.
C11_CollectingIffBuffered ==
    /\ [](/\ is_collecting <=> speech_buffer # << >>
          /\ \A i \in 1..Len(segments) : segments[i] # << >>
          /\ monitor_pc = "delay" => frames_to_play # << >>
          /\ \A t \in TaskIds : Running(t) => tasks[t].frames # << >>)
    /\ [][Len(speech_buffer') > Len(speech_buffer) => AcceptStep]_vars

\* A capture has just been finalized: Idle, empty buffer, its frames on their way.
C11_Witness ==
    /\ monitor_pc = "delay" /\ Len(frames_to_play) >= 2
    /\ ~is_collecting /\ speech_buffer = << >>

\* The frames of segment s that the sink has received, in the order received.
Emitted(s) == SelectSeq(sink, LAMBDA f : f \in Range(s))

IsPrefix(a, b) == Len(a) <= Len(b) /\ \A i \in 1..Len(a) : a[i] = b[i]

\* C12: what a playback run has emitted is at all times a prefix of its segment
\* (one frame at a time, in arrival order, none skipped or repeated); the sink
\* receives a segment frame only as the next frame of a run that has not been
\* asked to cancel, so a cancelled run's remaining frames are never emitted;
\* and every accepted frame is emitted at most once.
C12_EmittedIsPrefix ==
    /\ [](/\ \A i \in 1..Len(segments) : IsPrefix(Emitted(segments[i]), segments[i])
          /\ \A t \in TaskIds :
                Running(t) => tasks[t].pos = Len(Emitted(Ids(tasks[t].frames)))
          /\ \A f \in 1..MaxFrames :
                Cardinality({ i \in 1..Len(sink) : sink[i] = f }) <= 1)
    /\ [][/\ IsPrefix(sink, sink')
          /\ Len(sink') > Len(sink) =>
                \E t \in TaskIds :
                    /\ Running(t) /\ ~tasks[t].must_cancel
                    /\ tasks[t].pos < Len(tasks[t].frames)
                    /\ sink' = Append(sink, tasks[t].frames[tasks[t].pos + 1].id)]_vars

\* A run was asked to cancel after its first frame, with frames left to emit.
C12_Witness ==
    \E t \in TaskIds :
        /\ Running(t) /\ tasks[t].must_cancel
        /\ tasks[t].pos >= 1 /\ tasks[t].pos < Len(tasks[t].frames)

\* C13: the monitor finalizes only from Collecting with a non-empty buffer and
\* with more than SILENCE_THRESHOLD (strictly) on the clock, hence more than that
\* since the most recent accepted speech frame; the finalize step sets Idle and
\* empties the live buffer.
C13_FinalizeOnlyAfterSilence ==
    [][FinalizeStep =>
          /\ is_collecting /\ speech_buffer # << >>
          /\ since_speech > SILENCE_THRESHOLD
          /\ since_frame > SILENCE_THRESHOLD
          /\ ~is_collecting' /\ speech_buffer' = << >>
          /\ frames_to_play' = speech_buffer]_vars

\* A capture was finalized at the first monitor wake-up past the threshold.
C13_Witness ==
    /\ monitor_pc = "delay" /\ monitor_timer = ECHO_DELAY
    /\ since_frame = SILENCE_THRESHOLD + 1 /\ ~is_collecting

\* C14: while Collecting, last_speech_time is the arrival time of the most
\* recently accepted speech frame and nothing but handle_audio has written it
\* since that frame: in particular play_reminder has not returned (line 164 has
\* not run) after the frame was accepted.
C14_ClockOwnedByCapture ==
    is_collecting => (since_speech = since_frame /\ since_reminder = Never)

\* A tick of the clock: the only step that counts a sleep down.
TickStep == silence_timer' = silence_timer - 1

\* C15 as stated: cancellation takes effect only between two frame emissions: a
\* run waiting in capture_frame is never ended there, and a run that has been
\* asked to cancel hands no further frame to the sink.
C15_CancelOnlyBetweenFrames ==
    [][\A t \in TaskIds :
          /\ tasks[t].pc = "capture" => tasks'[t].pc # "done"
          /\ (Running(t) /\ tasks[t].must_cancel /\ tasks'[t] # tasks[t])
                => sink' = sink]_vars

\* C15, amended: cancellation takes effect at the await where the run is
\* suspended (before its first turn, in capture_frame or in the pacing sleep)
\* and before any time passes; the next step of a run that has been asked to cancel
\* is its end, it hands no further frame to the sink, and what the sink already
\* received stays received.
C15_CancelAtNextResumption ==
    [][/\ \A t \in TaskIds :
              (Running(t) /\ tasks[t].must_cancel /\ tasks'[t] # tasks[t])
                 => (tasks'[t].pc = "done" /\ sink' = sink)
       /\ TickStep => \A t \in TaskIds : ~(Running(t) /\ tasks[t].must_cancel)
       /\ IsPrefix(sink, sink')]_vars

\* A run has been asked to cancel while it waits in capture_frame.
C15_Witness ==
    \E t \in TaskIds :
        tasks[t].pc = "capture" /\ tasks[t].must_cancel /\ sink # << >>

\* C18: the step in which a cancelled playback run resumes ends the run (the
\* task is done, CancelledError goes no further): the monitor loop, the reminder
\* loop and every other task are where they were, and the run leaves the live
\* buffer, is_collecting, last_speech_time and the handle as they were.
C18_CancelledRunEndsQuietly ==
    [][\A t \in TaskIds :
          (Running(t) /\ tasks[t].must_cancel /\ tasks'[t] # tasks[t]) =>
             /\ tasks'[t] = EndedTask
             /\ \A u \in TaskIds \ {t} : tasks'[u] = tasks[u]
             /\ UNCHANGED << speech_buffer, is_collecting, since_speech, playback_task >>
             /\ UNCHANGED << monitor_pc, monitor_timer, frames_to_play,
                             silence_pc, silence_timer >>]_vars

\* The run behind the handle has ended with frames of its segment unplayed, while
\* the capture that cancelled it goes on.
C18_Witness ==
    /\ playback_task # 0 /\ Done(playback_task)
    /\ is_collecting /\ speech_buffer # << >>
    /\ \E i \in 1..Len(segments) :
          /\ segments[i][1] = playback_task
          /\ Len(Emitted(segments[i])) < Len(segments[i])

\* The reminder loop hands the tone to the sink / gets control back from it.
ToneStep == silence_pc = "sleep" /\ silence_pc' = "reminder"
ToneDoneStep == silence_pc = "reminder" /\ silence_pc' = "sleep"

\* C19: a reminder is triggered only when the reminder loop finds the agent Idle
\* with more than 20 s on the clock; it hands one tone to the sink and then
\* sleeps again; neither step touches the live buffer, is_collecting, the
\* playback handle, a playback run or a segment; the only change of agent state
\* is last_speech_time := now when play_reminder returns, which never moves the
\* clock backwards.
C19_ReminderEffect ==
    [][/\ ToneStep =>
             /\ ~is_collecting /\ since_speech > REMINDER_THRESHOLD
             /\ UNCHANGED << speech_buffer, is_collecting, playback_task, tasks,
                             segments, frames_to_play, sink, since_speech >>
       /\ ToneDoneStep =>
             /\ since_speech' = 0 /\ since_speech' <= since_speech
             /\ silence_timer' = SILENCE_LOOP_INTERVAL
             /\ UNCHANGED << speech_buffer, is_collecting, playback_task, tasks,
                             segments, frames_to_play, sink >>]_vars

\* play_reminder has just returned, after an earlier segment was echoed: Idle,
\* nothing buffered, the clock reset.
C19_Witness ==
    /\ silence_pc = "sleep" /\ silence_timer = SILENCE_LOOP_INTERVAL
    /\ since_reminder = 0 /\ since_speech = 0
    /\ ~is_collecting /\ speech_buffer = << >> /\ segments # << >>

\* C17: the step that handles a frame at or below the energy threshold leaves
\* the live buffer, is_collecting, last_speech_time and the playback handle as
\* they were, cancels no playback run and changes no run, segment or emitted
\* frame; the silence measured by the monitor is not extended.
C17_SilenceFrameNoEffect ==
    [][last_frame' = "silence" =>
          /\ UNCHANGED << speech_buffer, is_collecting, since_speech, playback_task >>
          /\ UNCHANGED << tasks, frames_to_play, segments, sink >>
          /\ UNCHANGED << monitor_pc, monitor_timer, since_frame >>]_vars

\* A silence frame has just been handled while a capture is under way, its
\* silence already running, and an uncancelled playback run is between two frames.
C17_Witness ==
    /\ last_frame = "silence"
    /\ is_collecting /\ since_speech > 0
    /\ \E t \in TaskIds :
          tasks[t].pc = "sleep" /\ ~tasks[t].must_cancel /\ tasks[t].timer > 0

\* The capture that ended with frame n - 1 has been echoed: it is a segment, the
\* sink has received all its frames in order, its run has ended and the handle
\* does not refer to a run that is still going.
EchoedUpTo(n) ==
    /\ ~PlaybackActive
    /\ \E i \in 1..Len(segments) :
          /\ segments[i][Len(segments[i])] = n - 1
          /\ Emitted(segments[i]) = segments[i]
          /\ Done(segments[i][1])

\* C16: on a running event loop, whenever the agent is Collecting and frame n - 1
\* is the last one accepted, then either a further speech frame is accepted or,
\* eventually, the capture is finalized, played out frame by frame in order, and
\* its playback task ends, so that PlaybackActive is false.
C16_CaptureEventuallyEchoed ==
    \A n \in 2..(MaxFrames + 1) :
        (is_collecting /\ next_id = n) ~> (next_id # n \/ EchoedUpTo(n))

\* A capture of several frames has been echoed to the end and its run is over.
C16_Witness ==
    /\ ~is_collecting /\ EchoedUpTo(next_id)
    /\ \E i \in 1..Len(segments) :
          Len(segments[i]) >= 2 /\ segments[i][Len(segments[i])] = next_id - 1

\* C20: while the reminder tone is at the sink no echo playback run is active
\* (started or about to start, not ended, not asked to cancel), so that no tone
\* comes between two frames of a run or into a frame that is being played.
C20_NoToneDuringPlayback ==
    silence_pc = "reminder" => ActiveRuns = {}

=============================================================================
